---- MODULE Spec2Model ----
(***************************************************************************)
(* Model of mucher.py: the response scorer (ExamGrader), the question bank *)
(* parser, description builder and generation pipeline (ExamGenerator),    *)
(* and the command line entry point main().                                *)
(*                                                                         *)
(* Text is a sequence of one-character strings.  A spreadsheet cell is a   *)
(* record [t, v]: t = "str" for text (v its characters), t = "nan" for an  *)
(* empty cell, t = "num" for a number (v the digits str() prints).         *)
(***************************************************************************)
EXTENDS Integers, Sequences, FiniteSets, TLC

VARIABLES
    config,        \* ExamConfig: the fields grade() and generate() read
    df,            \* grade(): the results table, a sequence of rows of cells
    gpc,           \* grade(): position in the method
    row_idx,       \* grade(): number of rows of df already consumed
    q_idx,         \* _calculate_student_score(): zip items already consumed
    total_score,   \* _calculate_student_score(): local total_score
    scores,        \* grade(): local list scores
    report,        \* grade(): local dict report, in insertion order
    punteggi,      \* grade(): the column df['PUNTEGGI'] once assigned
    gerr,          \* grade(): exception that left the method, or "none"
    bank,          \* the question file: a sequence of sheets [name, rows]
    gen_pc,        \* generate(): the next step of the method
    exc,           \* generate(): the exception in flight, or "none"
    temp_dir,      \* self._temp_dir: "none" or "object"
    temp_exists,   \* whether the temporary directory is on disk
    folder,        \* the files of the temporary directory
    sheets,        \* generate(): local sheets, the list the parser returns
    output_dir,    \* the files generate() left in config.output_dir
    invoked,       \* the external programs run so far, in order
    log,           \* the records handed to the logger, in order
    main_pc,       \* main(): position in the function, "none" when main() is not running
    exit_code      \* main(): the value returned, -1 while there is none

gvars == <<df, gpc, row_idx, q_idx, total_score, scores, report, punteggi, gerr>>

xvars == <<bank, gen_pc, exc, temp_dir, temp_exists, folder, sheets, output_dir, invoked, log>>

mvars == <<main_pc, exit_code>>

vars == <<config, df, gpc, row_idx, q_idx, total_score, scores, report, punteggi, gerr,
          bank, gen_pc, exc, temp_dir, temp_exists, folder, sheets, output_dir, invoked, log,
          main_pc, exit_code>>

----------------------------------------------------------------------------
(* Bounds of the explored inputs *)

MaxQuestions == 2

MaxAnsLen == 2

MaxRows == 2

MaxBlocks == 2

MaxSheets == 2

----------------------------------------------------------------------------
(* Program constants *)

MIN_COLUMNS_REQUIRED == 6

QUESTIONS_START_IDX == 3

QUESTIONS_END_OFFSET == -3

CORRECT_ANSWERS_OFFSET == -3

GIVEN_ANSWERS_OFFSET == -2

----------------------------------------------------------------------------
(* Python values *)

Min2(a, b) == IF a <= b THEN a ELSE b

SeqsUpTo(S, n) == UNION {[1..k -> S] : k \in 0..n}

TextCell(s) == [t |-> "str", v |-> s]

NaN == [t |-> "nan", v |-> <<>>]

Num7 == [t |-> "num", v |-> <<"7">>]

\* isinstance(x, str)
IsStr(cell) == cell.t = "str"

\* str(x)
PyStr(cell) ==
    CASE cell.t = "str" -> cell.v
      [] cell.t = "nan" -> <<"n", "a", "n">>
      [] OTHER -> cell.v

\* row[off] for a negative offset off
PyNegIndex(row, off) == row[Len(row) + off + 1]

\* row[start:stop] for start >= 0 and stop < 0
PySlice(row, start, stop) ==
    LET first == Min2(start, Len(row)) + 1
        last  == IF Len(row) + stop < 0 THEN 0 ELSE Len(row) + stop
    IN  IF last < first THEN <<>> ELSE SubSeq(row, first, last)

----------------------------------------------------------------------------
(* ExamGrader *)

ValidateRow(row) == Len(row) >= MIN_COLUMNS_REQUIRED

GivenAnswers(row) == PyNegIndex(row, GIVEN_ANSWERS_OFFSET)

CorrectAnswers(row) == PyNegIndex(row, CORRECT_ANSWERS_OFFSET)

Questions(row) == PySlice(row, QUESTIONS_START_IDX, QUESTIONS_END_OFFSET)

\* number of items zip(correct_answers, given_answers, questions) yields
ZipLen(row) ==
    Min2(Len(CorrectAnswers(row).v),
         Min2(Len(GivenAnswers(row).v), Len(Questions(row))))

\* Category with the test len(question_str) > 2
Category_Over2(question) ==
    LET question_str == PyStr(question)
    IN  IF Len(question_str) > 2
        THEN SubSeq(question_str, 1, Len(question_str) - 2)
        ELSE question_str

\* question_str[:-2] when len(question_str) >= 2, else question_str
Category(question) ==
    LET question_str == PyStr(question)
    IN  IF Len(question_str) >= 2
        THEN SubSeq(question_str, 1, Len(question_str) - 2)
        ELSE question_str

InReport(rep, category) == \E i \in 1..Len(rep) : rep[i].cat = category

\* if category not in report: report[category] = {...: 0}
InitCategory(rep, category) ==
    IF InReport(rep, category)
    THEN rep
    ELSE Append(rep, [cat |-> category, corrette |-> 0, non_date |-> 0, errate |-> 0])

\* report[category][field] += 1
Increment(rep, category, field) ==
    [i \in 1..Len(rep) |->
        IF rep[i].cat = category THEN [rep[i] EXCEPT ![field] = @ + 1] ELSE rep[i]]

\* ScoreItem without the points of an incorrect answer
ScoreItem_NoPenalty(total, rep, correct, given, question) ==
    LET category == Category(question)
        rep1     == InitCategory(rep, category)
    IN  IF given = "-"
        THEN [total  |-> total + config.points_missing,
              report |-> Increment(rep1, category, "non_date")]
        ELSE IF correct = given
        THEN [total  |-> total + config.points_correct,
              report |-> Increment(rep1, category, "corrette")]
        ELSE [total  |-> total,
              report |-> Increment(rep1, category, "errate")]

\* ScoreItem with the test correct == given ahead of the test given == '-'
ScoreItem_EqualFirst(total, rep, correct, given, question) ==
    LET category == Category(question)
        rep1     == InitCategory(rep, category)
    IN  IF correct = given
        THEN [total  |-> total + config.points_correct,
              report |-> Increment(rep1, category, "corrette")]
        ELSE IF given = "-"
        THEN [total  |-> total + config.points_missing,
              report |-> Increment(rep1, category, "non_date")]
        ELSE [total  |-> total + config.points_incorrect,
              report |-> Increment(rep1, category, "errate")]

\* ScoreItem that goes to the next item after adding a new category
ScoreItem_SkipNew(total, rep, correct, given, question) ==
    LET category == Category(question)
        rep1     == InitCategory(rep, category)
    IN  IF ~InReport(rep, category)
        THEN [total |-> total, report |-> rep1]
        ELSE IF given = "-"
        THEN [total  |-> total + config.points_missing,
              report |-> Increment(rep1, category, "non_date")]
        ELSE IF correct = given
        THEN [total  |-> total + config.points_correct,
              report |-> Increment(rep1, category, "corrette")]
        ELSE [total  |-> total + config.points_incorrect,
              report |-> Increment(rep1, category, "errate")]

\* one iteration of the loop of _calculate_student_score
ScoreItem(total, rep, correct, given, question) ==
    LET category == Category(question)
        rep1     == InitCategory(rep, category)
    IN  IF given = "-"
        THEN [total  |-> total + config.points_missing,
              report |-> Increment(rep1, category, "non_date")]
        ELSE IF correct = given
        THEN [total  |-> total + config.points_correct,
              report |-> Increment(rep1, category, "corrette")]
        ELSE [total  |-> total + config.points_incorrect,
              report |-> Increment(rep1, category, "errate")]

Blank == [blank |-> TRUE, v |-> 0]

IntScore(n) == [blank |-> FALSE, v |-> n]

CurrentRow == df[row_idx + 1]

\* grade(): read the table, reject an empty one, initialise report and scores
GradeStart ==
    /\ gpc = "start"
    /\ IF Len(df) = 0
       THEN /\ gpc' = "raised"
            /\ gerr' = "ValueError"
       ELSE /\ gpc' = "rows"
            /\ gerr' = gerr
    /\ UNCHANGED xvars
    /\ UNCHANGED mvars
    /\ UNCHANGED <<config, df, row_idx, q_idx, total_score, scores, report, punteggi>>

\* grade(): a row that _validate_row rejects
GradeRowInvalid ==
    /\ gpc = "rows"
    /\ row_idx < Len(df)
    /\ ~ValidateRow(CurrentRow)
    /\ scores' = Append(scores, Blank)
    /\ row_idx' = row_idx + 1
    /\ UNCHANGED xvars
    /\ UNCHANGED mvars
    /\ UNCHANGED <<config, df, gpc, q_idx, total_score, report, punteggi, gerr>>

\* GradeRowNotText without the isinstance test: zip() raises on the number
GradeRowNotText_Raises ==
    /\ gpc = "rows"
    /\ row_idx < Len(df)
    /\ ValidateRow(CurrentRow)
    /\ ~IsStr(GivenAnswers(CurrentRow))
    /\ gpc' = "raised"
    /\ gerr' = "TypeError"
    /\ UNCHANGED xvars
    /\ UNCHANGED mvars
    /\ UNCHANGED <<config, df, row_idx, q_idx, total_score, scores, report, punteggi>>

\* grade(): a row whose given answers are not a str
GradeRowNotText ==
    /\ gpc = "rows"
    /\ row_idx < Len(df)
    /\ ValidateRow(CurrentRow)
    /\ ~IsStr(GivenAnswers(CurrentRow))
    /\ scores' = Append(scores, Blank)
    /\ row_idx' = row_idx + 1
    /\ UNCHANGED xvars
    /\ UNCHANGED mvars
    /\ UNCHANGED <<config, df, gpc, q_idx, total_score, report, punteggi, gerr>>

\* grade() calls _calculate_student_score; zip() raises TypeError on a
\* correct_answers value that is not iterable, otherwise the loop starts
CalculateEnter ==
    /\ gpc = "rows"
    /\ row_idx < Len(df)
    /\ ValidateRow(CurrentRow)
    /\ IsStr(GivenAnswers(CurrentRow))
    /\ IF IsStr(CorrectAnswers(CurrentRow))
       THEN /\ gpc' = "zip"
            /\ gerr' = gerr
       ELSE /\ gpc' = "raised"
            /\ gerr' = "TypeError"
    /\ q_idx' = 0
    /\ total_score' = 0
    /\ UNCHANGED xvars
    /\ UNCHANGED mvars
    /\ UNCHANGED <<config, df, row_idx, scores, report, punteggi>>

\* _calculate_student_score: one iteration of the for loop
CalculateStep ==
    /\ gpc = "zip"
    /\ q_idx < ZipLen(CurrentRow)
    /\ LET r == ScoreItem(total_score, report,
                          CorrectAnswers(CurrentRow).v[q_idx + 1],
                          GivenAnswers(CurrentRow).v[q_idx + 1],
                          Questions(CurrentRow)[q_idx + 1])
       IN  /\ total_score' = r.total
           /\ report' = r.report
    /\ q_idx' = q_idx + 1
    /\ UNCHANGED xvars
    /\ UNCHANGED mvars
    /\ UNCHANGED <<config, df, gpc, row_idx, scores, punteggi, gerr>>

\* _calculate_student_score returns; grade() appends the score
CalculateReturn ==
    /\ gpc = "zip"
    /\ q_idx = ZipLen(CurrentRow)
    /\ scores' = Append(scores, IntScore(total_score))
    /\ row_idx' = row_idx + 1
    /\ gpc' = "rows"
    /\ UNCHANGED xvars
    /\ UNCHANGED mvars
    /\ UNCHANGED <<config, df, q_idx, total_score, report, punteggi, gerr>>

\* grade(): df['PUNTEGGI'] = scores, save, return
GradeFinish ==
    /\ gpc = "rows"
    /\ row_idx = Len(df)
    /\ punteggi' = scores
    /\ gpc' = "done"
    /\ UNCHANGED xvars
    /\ UNCHANGED mvars
    /\ UNCHANGED <<config, df, row_idx, q_idx, total_score, scores, report, gerr>>

GradeNext ==
    \/ GradeStart
    \/ GradeRowInvalid
    \/ GradeRowNotText
    \/ CalculateEnter
    \/ CalculateStep
    \/ CalculateReturn
    \/ GradeFinish

----------------------------------------------------------------------------
(* ExamGenerator: the question bank parser *)

QUESTIONS_PER_BLOCK == 5

RESPONSES_PER_QUESTION == 4

\* pd.isna(x)
IsNa(cell) == cell.t = "nan"

IsSpace(ch) == ch \in {" ", "\t", "\n"}

RECURSIVE LStrip(_)
LStrip(s) == IF s # <<>> /\ IsSpace(Head(s)) THEN LStrip(Tail(s)) ELSE s

RECURSIVE RStrip(_)
RStrip(s) ==
    IF s # <<>> /\ IsSpace(s[Len(s)]) THEN RStrip(SubSeq(s, 1, Len(s) - 1)) ELSE s

\* s.strip()
Strip(s) == RStrip(LStrip(s))

RECURSIVE Join(_, _)
\* sep.join(parts)
Join(parts, sep) ==
    IF parts = <<>> THEN <<>>
    ELSE IF Len(parts) = 1 THEN parts[1]
    ELSE parts[1] \o sep \o Join(Tail(parts), sep)

Digit(d) == SubSeq(<<"0", "1", "2", "3", "4", "5", "6", "7", "8", "9">>, d + 1, d + 1)

RECURSIVE Decimal(_)
\* str(n) for an int n >= 0
Decimal(n) == IF n < 10 THEN Digit(n) ELSE Decimal(n \div 10) \o Digit(n % 10)

\* f"{sheet}-{index}"
FileName(sheet, index) == sheet \o <<"-">> \o Decimal(index)

Delimiter == <<"\n", ".", "\n">>

LogRecord(level, msg, sheet, n) == [level |-> level, msg |-> msg, sheet |-> sheet, n |-> n]

RECURSIVE ExtractResponses_Reversed(_, _, _)
\* ExtractResponses that puts each response ahead of the ones found before
ExtractResponses_Reversed(elements, start_idx, i) ==
    IF i > RESPONSES_PER_QUESTION THEN <<>>
    ELSE LET resp_idx == start_idx + i
             rest     == ExtractResponses_Reversed(elements, start_idx, i + 1)
         IN  IF resp_idx < Len(elements) /\ Len(elements[resp_idx + 1]) > 0
                  /\ ~IsNa(elements[resp_idx + 1][1])
             THEN rest \o <<Strip(PyStr(elements[resp_idx + 1][1]))>>
             ELSE rest

RECURSIVE ExtractResponses(_, _, _)
\* the loop over i in range(1, RESPONSES_PER_QUESTION + 1), from i on
ExtractResponses(elements, start_idx, i) ==
    IF i > RESPONSES_PER_QUESTION THEN <<>>
    ELSE LET resp_idx == start_idx + i
             rest     == ExtractResponses(elements, start_idx, i + 1)
         IN  IF resp_idx < Len(elements) /\ Len(elements[resp_idx + 1]) > 0
                  /\ ~IsNa(elements[resp_idx + 1][1])
             THEN <<Strip(PyStr(elements[resp_idx + 1][1]))>> \o rest
             ELSE rest

\* WriteQuestionFile that returns after the warning about too few responses
WriteQuestionFile_DropShort(acc, sheet, index, elements, start_idx) ==
    IF start_idx >= Len(elements)
    THEN [acc EXCEPT !.log = Append(@, LogRecord("warning", "invalid_start", sheet, start_idx))]
    ELSE LET question_row == elements[start_idx + 1]
         IN  IF Len(question_row) = 0 \/ IsNa(question_row[1])
             THEN [acc EXCEPT !.log = Append(@, LogRecord("warning", "empty_question", sheet, index))]
             ELSE LET question  == Strip(PyStr(question_row[1]))
                      responses == ExtractResponses(elements, start_idx, 1)
                      content   == question \o Delimiter \o Join(responses, Delimiter) \o Delimiter
                  IN  IF Len(responses) < RESPONSES_PER_QUESTION
                      THEN [acc EXCEPT !.log = Append(@, LogRecord("warning", "few_responses", sheet, index))]
                      ELSE [files |-> [f \in DOMAIN acc.files \cup {FileName(sheet, index)} |->
                                         IF f = FileName(sheet, index) THEN content ELSE acc.files[f]],
                            log   |-> Append(acc.log, LogRecord("debug", "wrote", sheet, index))]

\* _write_question_file; acc holds the question files written and the log
WriteQuestionFile(acc, sheet, index, elements, start_idx) ==
    IF start_idx >= Len(elements)
    THEN [acc EXCEPT !.log = Append(@, LogRecord("warning", "invalid_start", sheet, start_idx))]
    ELSE LET question_row == elements[start_idx + 1]
         IN  IF Len(question_row) = 0 \/ IsNa(question_row[1])
             THEN [acc EXCEPT !.log = Append(@, LogRecord("warning", "empty_question", sheet, index))]
             ELSE LET question  == Strip(PyStr(question_row[1]))
                      responses == ExtractResponses(elements, start_idx, 1)
                      content   == question \o Delimiter \o Join(responses, Delimiter) \o Delimiter
                      log1      == IF Len(responses) < RESPONSES_PER_QUESTION
                                   THEN Append(acc.log, LogRecord("warning", "few_responses", sheet, index))
                                   ELSE acc.log
                  IN  [files |-> [f \in DOMAIN acc.files \cup {FileName(sheet, index)} |->
                                    IF f = FileName(sheet, index) THEN content ELSE acc.files[f]],
                       log   |-> Append(log1, LogRecord("debug", "wrote", sheet, index))]

RECURSIVE WriteBlocks(_, _, _, _, _)
\* for i in range(num_questions): _write_question_file(..., i, elements, i * 5)
WriteBlocks(acc, sheet, elements, i, num_questions) ==
    IF i >= num_questions THEN acc
    ELSE WriteBlocks(WriteQuestionFile(acc, sheet, i, elements, i * QUESTIONS_PER_BLOCK),
                     sheet, elements, i + 1, num_questions)

\* ParseSheet that rounds the number of blocks up when rows are left over
ParseSheet_Ceil(acc, sheet, elements) ==
    IF Len(elements) = 0
    THEN [acc EXCEPT !.log = Append(@, LogRecord("warning", "sheet_empty", sheet, 0))]
    ELSE IF Len(elements) = QUESTIONS_PER_BLOCK
    THEN WriteQuestionFile(acc, sheet, 0, elements, 0)
    ELSE IF Len(elements) % QUESTIONS_PER_BLOCK = 0
    THEN WriteBlocks(acc, sheet, elements, 0, Len(elements) \div QUESTIONS_PER_BLOCK)
    ELSE WriteBlocks([acc EXCEPT !.log = Append(@, LogRecord("warning", "not_multiple", sheet, Len(elements)))],
                     sheet, elements, 0, Len(elements) \div QUESTIONS_PER_BLOCK + 1)

\* the body of the loop over the sheets in _parse_questions_from_excel
ParseSheet(acc, sheet, elements) ==
    IF Len(elements) = 0
    THEN [acc EXCEPT !.log = Append(@, LogRecord("warning", "sheet_empty", sheet, 0))]
    ELSE IF Len(elements) = QUESTIONS_PER_BLOCK
    THEN WriteQuestionFile(acc, sheet, 0, elements, 0)
    ELSE IF Len(elements) % QUESTIONS_PER_BLOCK = 0
    THEN WriteBlocks(acc, sheet, elements, 0, Len(elements) \div QUESTIONS_PER_BLOCK)
    ELSE WriteBlocks([acc EXCEPT !.log = Append(@, LogRecord("warning", "not_multiple", sheet, Len(elements)))],
                     sheet, elements, 0, Len(elements) \div QUESTIONS_PER_BLOCK)

RECURSIVE ParseSheets(_, _, _)
\* for sheet in sheets, from the k-th sheet on
ParseSheets(acc, excel_file, k) ==
    IF k > Len(excel_file) THEN acc
    ELSE ParseSheets(ParseSheet(acc, excel_file[k].name, excel_file[k].rows), excel_file, k + 1)

\* SheetNames that leaves out the sheets without rows
SheetNames_NonEmpty(excel_file) ==
    LET kept == SelectSeq(excel_file, LAMBDA sh : sh.rows # <<>>)
    IN  [k \in 1..Len(kept) |-> kept[k].name]

\* excel_file.sheet_names
SheetNames(excel_file) == [k \in 1..Len(excel_file) |-> excel_file[k].name]

----------------------------------------------------------------------------
(* ExamGenerator: the description *)

Line(kw, num, arg) == [kw |-> kw, num |-> num, arg |-> arg]

EmptyLine == Line("", 0, <<>>)

\* MuchDescription with the usages in the reverse of the list's order
MuchDescription_Reversed(sheet_list) ==
    LET usages == [k \in 1..Len(sheet_list) |->
                      Line("use", config.usage_per_category,
                           sheet_list[Len(sheet_list) + 1 - k] \o <<"-", "*">>)]
    IN  <<EmptyLine,
          Line("directory", 0, <<".">>),
          Line("seed", config.seed, <<>>),
          Line("serial", config.serial_start, <<>>)>>
        \o (IF usages = <<>> THEN <<EmptyLine>> ELSE usages)
        \o <<Line("create", config.num_tests, <<>>)>>

\* the text _generate_much_description writes, as its lines: the literal opens
\* with a line break, and an empty list of usages joins to an empty line
MuchDescription(sheet_list) ==
    LET usages == [k \in 1..Len(sheet_list) |->
                      Line("use", config.usage_per_category, sheet_list[k] \o <<"-", "*">>)]
    IN  <<EmptyLine,
          Line("directory", 0, <<".">>),
          Line("seed", config.seed, <<>>),
          Line("serial", config.serial_start, <<>>)>>
        \o (IF usages = <<>> THEN <<EmptyLine>> ELSE usages)
        \o <<Line("create", config.num_tests, <<>>)>>

----------------------------------------------------------------------------
(* ExamGenerator.generate *)

EmptyFolder ==
    [tex |-> FALSE, questions |-> <<>>, description |-> <<>>, images |-> {},
     mc_output |-> FALSE, mc_serials |-> FALSE, pdf |-> FALSE]

NoException == [type |-> "none", msg |-> ""]

\* an exception leaves a step of the try block: control goes to the finally clause
Raise(type, msg) ==
    /\ exc' = [type |-> type, msg |-> msg]
    /\ gen_pc' = "finally"

\* self._setup_temp_directory()
SetupTempDirectory ==
    /\ gen_pc = "setup"
    /\ temp_dir' = "object"
    /\ temp_exists' = TRUE
    /\ folder' = EmptyFolder
    /\ gen_pc' = "template"
    /\ UNCHANGED <<config, bank, exc, sheets, output_dir, invoked, log>>
    /\ UNCHANGED gvars
    /\ UNCHANGED mvars

\* self._generate_latex_template(folder)
GenerateLatexTemplate ==
    /\ gen_pc = "template"
    /\ folder' = [folder EXCEPT !.tex = TRUE]
    /\ gen_pc' = "parse"
    /\ UNCHANGED <<config, bank, exc, temp_dir, temp_exists, sheets, output_dir, invoked, log>>
    /\ UNCHANGED gvars
    /\ UNCHANGED mvars

\* self._parse_questions_from_excel(folder): the input file fails validation
ParseInputInvalid ==
    /\ gen_pc = "parse"
    /\ \/ Raise("FileNotFoundError", "input_not_found")
       \/ Raise("ValueError", "input_not_a_file")
       \/ Raise("PermissionError", "input_unreadable")
    /\ UNCHANGED <<config, bank, temp_dir, temp_exists, folder, sheets, output_dir, invoked, log>>
    /\ UNCHANGED gvars
    /\ UNCHANGED mvars

\* ParseQuestionsFromExcel without the check for a workbook with no sheet
ParseQuestionsFromExcel_NoCheck ==
    /\ gen_pc = "parse"
    /\ LET r == ParseSheets([files |-> folder.questions, log |-> log], bank, 1)
       IN  /\ folder' = [folder EXCEPT !.questions = r.files]
           /\ log' = Append(r.log, LogRecord("info", "parsed", <<>>, Len(bank)))
           /\ sheets' = SheetNames(bank)
           /\ gen_pc' = "description"
           /\ exc' = exc
    /\ UNCHANGED <<config, bank, temp_dir, temp_exists, output_dir, invoked>>
    /\ UNCHANGED gvars
    /\ UNCHANGED mvars

\* self._parse_questions_from_excel(folder): the input file is read
ParseQuestionsFromExcel ==
    /\ gen_pc = "parse"
    /\ IF SheetNames(bank) = <<>>
       THEN /\ Raise("ValueError", "no_sheets")
            /\ UNCHANGED <<folder, sheets, log>>
       ELSE LET r == ParseSheets([files |-> folder.questions, log |-> log], bank, 1)
            IN  /\ folder' = [folder EXCEPT !.questions = r.files]
                /\ log' = Append(r.log, LogRecord("info", "parsed", <<>>, Len(bank)))
                /\ sheets' = SheetNames(bank)
                /\ gen_pc' = "description"
                /\ exc' = exc
    /\ UNCHANGED <<config, bank, temp_dir, temp_exists, output_dir, invoked>>
    /\ UNCHANGED gvars
    /\ UNCHANGED mvars

\* self._generate_much_description(sheets, folder)
GenerateMuchDescription ==
    /\ gen_pc = "description"
    /\ folder' = [folder EXCEPT !.description = MuchDescription(sheets)]
    /\ gen_pc' = "images"
    /\ UNCHANGED <<config, bank, exc, temp_dir, temp_exists, sheets, output_dir, invoked, log>>
    /\ UNCHANGED gvars
    /\ UNCHANGED mvars

\* self._copy_images(folder): the working directory holds the images found;
\* a copy that fails is logged and skipped
CopyImages ==
    /\ gen_pc = "images"
    /\ \E found \in {{"figure.png"}} : \E copied \in SUBSET found :
         /\ folder' = [folder EXCEPT !.images = copied]
         /\ log' = IF copied = found THEN log
                   ELSE Append(log, LogRecord("warning", "copy_image_failed", <<>>, 0))
    /\ gen_pc' = "much"
    /\ UNCHANGED <<config, bank, exc, temp_dir, temp_exists, sheets, output_dir, invoked>>
    /\ UNCHANGED gvars
    /\ UNCHANGED mvars

\* self._run_much(folder): much is not installed
RunMuchNotFound ==
    /\ gen_pc = "much"
    /\ Raise("FileNotFoundError", "much_not_installed")
    /\ UNCHANGED <<config, bank, temp_dir, temp_exists, folder, sheets, output_dir, invoked, log>>
    /\ UNCHANGED gvars
    /\ UNCHANGED mvars

\* self._run_much(folder): much runs and exits non-zero; check=True raises
RunMuchFails ==
    /\ gen_pc = "much"
    /\ invoked' = Append(invoked, "much")
    /\ log' = Append(log, LogRecord("error", "much_failed", <<>>, 1))
    /\ Raise("CalledProcessError", "much_exit_status")
    /\ UNCHANGED <<config, bank, temp_dir, temp_exists, folder, sheets, output_dir>>
    /\ UNCHANGED gvars
    /\ UNCHANGED mvars

\* self._run_much(folder): much runs and exits 0; the files it left are
\* whatever it left, _run_much does not look at them
RunMuch ==
    /\ gen_pc = "much"
    /\ invoked' = Append(invoked, "much")
    /\ \E made_output \in BOOLEAN, made_serials \in BOOLEAN :
         folder' = [folder EXCEPT !.mc_output = made_output, !.mc_serials = made_serials]
    /\ gen_pc' = "latex"
    /\ UNCHANGED <<config, bank, exc, temp_dir, temp_exists, sheets, output_dir, log>>
    /\ UNCHANGED gvars
    /\ UNCHANGED mvars

\* self._compile_latex(folder): pdflatex is not installed
CompileLatexNotFound ==
    /\ gen_pc = "latex"
    /\ Raise("FileNotFoundError", "pdflatex_not_installed")
    /\ UNCHANGED <<config, bank, temp_dir, temp_exists, folder, sheets, output_dir, invoked, log>>
    /\ UNCHANGED gvars
    /\ UNCHANGED mvars

\* CompileLatex that runs pdflatex a second time when the first run left no exam.pdf
CompileLatex_Retry ==
    /\ gen_pc = "latex"
    /\ invoked' = Append(invoked, "pdflatex")
    /\ \E made_pdf \in BOOLEAN :
         /\ folder' = [folder EXCEPT !.pdf = made_pdf]
         /\ IF ~made_pdf /\ Len(invoked) < 2
            THEN /\ gen_pc' = "latex"
                 /\ exc' = exc
                 /\ log' = log
            ELSE IF ~made_pdf
            THEN /\ Raise("RuntimeError", "no_pdf")
                 /\ log' = Append(log, LogRecord("error", "pdflatex_output", <<>>, 0))
            ELSE /\ gen_pc' = "copy"
                 /\ exc' = exc
                 /\ log' = log
    /\ UNCHANGED <<config, bank, temp_dir, temp_exists, sheets, output_dir>>
    /\ UNCHANGED gvars
    /\ UNCHANGED mvars

\* self._compile_latex(folder): pdflatex runs, its exit code is ignored;
\* RuntimeError when exam.pdf does not exist afterwards
CompileLatex ==
    /\ gen_pc = "latex"
    /\ invoked' = Append(invoked, "pdflatex")
    /\ \E made_pdf \in BOOLEAN :
         /\ folder' = [folder EXCEPT !.pdf = made_pdf]
         /\ IF ~made_pdf
            THEN /\ Raise("RuntimeError", "no_pdf")
                 /\ log' = Append(log, LogRecord("error", "pdflatex_output", <<>>, 0))
            ELSE /\ gen_pc' = "copy"
                 /\ exc' = exc
                 /\ log' = log
    /\ UNCHANGED <<config, bank, temp_dir, temp_exists, sheets, output_dir>>
    /\ UNCHANGED gvars
    /\ UNCHANGED mvars

\* self._copy_output_files(folder): the files that exist are copied; a serials
\* file that does not parse is logged; then the success message is logged
CopyOutputFiles ==
    /\ gen_pc = "copy"
    /\ \E parsed \in BOOLEAN :
         LET pdf     == IF folder.pdf THEN {"exam.pdf"} ELSE {}
             tex     == IF folder.tex THEN {"exam.tex"} ELSE {}
             results == IF folder.mc_serials /\ parsed THEN {"results_file"} ELSE {}
             log1    == IF folder.mc_serials /\ ~parsed
                        THEN Append(log, LogRecord("error", "serials_unparsed", <<>>, 0))
                        ELSE log
         IN  /\ parsed \/ folder.mc_serials
             /\ output_dir' = output_dir \cup pdf \cup tex \cup results
             /\ log' = Append(log1, LogRecord("info", "completed", <<>>, 0))
    /\ gen_pc' = "finally"
    /\ UNCHANGED <<config, bank, exc, temp_dir, temp_exists, folder, sheets, invoked>>
    /\ UNCHANGED gvars
    /\ UNCHANGED mvars

\* self._copy_output_files(folder): a copy or the spreadsheet write fails
CopyOutputFilesFails ==
    /\ gen_pc = "copy"
    /\ Raise("OSError", "copy_failed")
    /\ UNCHANGED <<config, bank, temp_dir, temp_exists, folder, sheets, output_dir, invoked, log>>
    /\ UNCHANGED gvars
    /\ UNCHANGED mvars

\* CleanupTempDirectory that removes the directory only when no exception is in flight
CleanupTempDirectory_OnSuccess ==
    /\ gen_pc = "finally"
    /\ IF temp_dir # "none" /\ config.cleanup_temp /\ exc = NoException
       THEN /\ temp_dir' = "none"
            /\ \E removed \in BOOLEAN :
                 /\ temp_exists' = ~removed
                 /\ log' = IF removed THEN log
                           ELSE Append(log, LogRecord("warning", "cleanup_failed", <<>>, 0))
       ELSE UNCHANGED <<temp_dir, temp_exists, log>>
    /\ gen_pc' = IF exc = NoException THEN "returned" ELSE "raised"
    /\ UNCHANGED <<config, bank, exc, folder, sheets, output_dir, invoked>>
    /\ UNCHANGED gvars
    /\ UNCHANGED mvars

\* finally: self._cleanup_temp_directory(); then generate() returns or the
\* exception in flight propagates
CleanupTempDirectory ==
    /\ gen_pc = "finally"
    /\ IF temp_dir # "none" /\ config.cleanup_temp
       THEN /\ temp_dir' = "none"
            /\ \E removed \in BOOLEAN :
                 /\ temp_exists' = ~removed
                 /\ log' = IF removed THEN log
                           ELSE Append(log, LogRecord("warning", "cleanup_failed", <<>>, 0))
       ELSE UNCHANGED <<temp_dir, temp_exists, log>>
    /\ gen_pc' = IF exc = NoException THEN "returned" ELSE "raised"
    /\ UNCHANGED <<config, bank, exc, folder, sheets, output_dir, invoked>>
    /\ UNCHANGED gvars
    /\ UNCHANGED mvars

GenerateNext ==
    \/ SetupTempDirectory
    \/ GenerateLatexTemplate
    \/ ParseInputInvalid
    \/ ParseQuestionsFromExcel
    \/ GenerateMuchDescription
    \/ CopyImages
    \/ RunMuchNotFound
    \/ RunMuchFails
    \/ RunMuch
    \/ CompileLatexNotFound
    \/ CompileLatex
    \/ CopyOutputFiles
    \/ CopyOutputFilesFails
    \/ CleanupTempDirectory

----------------------------------------------------------------------------
(* Inputs *)

\* ExamConfig(): the defaults of the dataclass fields
DefaultConfig ==
    [num_tests |-> 30, serial_start |-> 10, usage_per_category |-> 1, seed |-> 42,
     points_correct |-> 4, points_missing |-> 1, points_incorrect |-> 0,
     cleanup_temp |-> TRUE]

Policies ==
    { DefaultConfig,
      [DefaultConfig EXCEPT !.points_correct = 3, !.points_missing = -1,
                            !.points_incorrect = -2] }

\* main() is not part of the run
MainIdle ==
    /\ main_pc = "none"
    /\ exit_code = -1

GeneratorIdle ==
    /\ bank = <<>>
    /\ gen_pc = "idle"
    /\ exc = NoException
    /\ temp_dir = "none"
    /\ temp_exists = FALSE
    /\ folder = EmptyFolder
    /\ sheets = <<>>
    /\ output_dir = {}
    /\ invoked = <<>>
    /\ log = <<>>

Meta == TextCell(<<"m">>)

StudentId == TextCell(<<"s">>)

LabelA01 == TextCell(<<"a", "0", "1">>)

LabelA == TextCell(<<"a">>)

LabelB2 == TextCell(<<"b", "2">>)

\* read_excel turns an empty text cell into NaN: a text cell holds 1 or more characters
TextCells(chars, n) == {TextCell(s) : s \in SeqsUpTo(chars, n) \ {<<>>}}

\* a row of a table with 6 + Len(labels) columns
Row(labels, correct, given) == <<Meta, Meta, Meta>> \o labels \o <<correct, given, StudentId>>

\* a row of a table with 5 columns
ShortRow(correct, given) == <<Meta, Meta, correct, given, StudentId>>

GraderStart ==
    /\ gpc = "start"
    /\ row_idx = 0
    /\ q_idx = 0
    /\ total_score = 0
    /\ scores = <<>>
    /\ report = <<>>
    /\ punteggi = <<>>
    /\ gerr = "none"

\* one-row tables of 5 to 6 + MaxQuestions columns, answers of up to MaxAnsLen characters
InitScore ==
    /\ config \in Policies
    /\ \E c \in TextCells({"A", "-"}, MaxAnsLen) \cup {NaN},
          g \in TextCells({"A", "B", "-"}, MaxAnsLen) \cup {Num7} :
         \/ \E q \in 0..MaxQuestions :
              \E labels \in [1..q -> {LabelA01, LabelA, LabelB2}] : df = <<Row(labels, c, g)>>
         \/ df = <<ShortRow(c, g)>>
    /\ GraderStart
    /\ GeneratorIdle
    /\ MainIdle

SpecScore == InitScore /\ [][GradeNext]_vars

BatchRows ==
    { Row(labels, c, g) :
        labels \in { <<LabelA01, LabelA>>, <<LabelB2, NaN>> },
        c \in { TextCell(<<"A", "-">>), TextCell(<<"A">>), NaN },
        g \in { TextCell(<<"A", "-">>), TextCell(<<"-", "A">>), TextCell(<<"A">>), Num7 } }

BatchShortRows == { ShortRow(TextCell(<<"A">>), g) : g \in {TextCell(<<"A">>), Num7} }

\* tables of 0..MaxRows rows, all rows of a table with the same column count
InitGrade ==
    /\ config = DefaultConfig
    /\ \E n \in 0..MaxRows : df \in [1..n -> BatchRows] \cup [1..n -> BatchShortRows]
    /\ GraderStart
    /\ GeneratorIdle
    /\ MainIdle

SpecGrade == InitGrade /\ [][GradeNext]_vars

\* a sheet row holds one cell
Cells(values) == [k \in 1..Len(values) |-> <<values[k]>>]

Text(chars) == TextCell(chars)

R1 == Text(<<"r", "1">>)

R2 == Text(<<"r", "2", " ">>)

R3 == Text(<<"r", "3">>)

R4 == Text(<<" ", "r", "4">>)

\* a block with every cell present, the prompt padded
FullBlock == Cells(<<Text(<<" ", "q">>), R1, R2, R3, R4>>)

\* a block with no prompt
NoPromptBlock == Cells(<<NaN, R1, R2, R3, R4>>)

\* a block with a numeric prompt and two of the responses missing
ShortBlock == Cells(<<Num7, R1, NaN, R3, NaN>>)

\* a block whose prompt is white space and that holds no response
BlankBlock == Cells(<<Text(<<" ">>), NaN, NaN, NaN, NaN>>)

Blocks == {FullBlock, NoPromptBlock, ShortBlock, BlankBlock}

RECURSIVE Flatten(_)
Flatten(seqs) == IF seqs = <<>> THEN <<>> ELSE Head(seqs) \o Flatten(Tail(seqs))

TrailingRows == Cells(<<Text(<<"x">>), Text(<<"y">>)>>)

\* sheets of up to MaxBlocks blocks, with or without 2 rows after the last block
RichSheets ==
    { Flatten(blocks) \o tail :
        blocks \in UNION {[1..n -> Blocks] : n \in 0..MaxBlocks},
        tail \in {<<>>, TrailingRows} }

PlainSheets == {<<>>, FullBlock}

\* sheet names are distinct within a workbook; the order is not the sorted one
NameLists == { SubSeq(<<<<"b">>, <<"a">>, <<"c">>, <<"d">>>>, 1, n) : n \in 0..MaxSheets }

GenConfigs ==
    { DefaultConfig,
      [DefaultConfig EXCEPT !.num_tests = 3, !.serial_start = 100,
                            !.usage_per_category = 2, !.seed = 7,
                            !.cleanup_temp = FALSE] }

GraderIdle ==
    /\ df = <<>>
    /\ gpc = "idle"
    /\ row_idx = 0
    /\ q_idx = 0
    /\ total_score = 0
    /\ scores = <<>>
    /\ report = <<>>
    /\ punteggi = <<>>
    /\ gerr = "none"

\* workbooks of 0..MaxSheets sheets: one sheet from RichSheets, the others plain
InitGenerate ==
    /\ config \in GenConfigs
    /\ \E names \in NameLists :
         \/ /\ names = <<>>
            /\ bank = <<>>
         \/ \E j \in 1..Len(names) :
              \E rich \in RichSheets, plain \in [1..Len(names) -> PlainSheets] :
                bank = [k \in 1..Len(names) |->
                          [name |-> names[k], rows |-> IF k = j THEN rich ELSE plain[k]]]
    /\ gen_pc = "setup"
    /\ exc = NoException
    /\ temp_dir = "none"
    /\ temp_exists = FALSE
    /\ folder = EmptyFolder
    /\ sheets = <<>>
    /\ output_dir = {}
    /\ invoked = <<>>
    /\ log = <<>>
    /\ GraderIdle
    /\ MainIdle

SpecGenerate == InitGenerate /\ [][GenerateNext]_vars

----------------------------------------------------------------------------
(* main *)

\* a return statement of main(); the frame is then torn down
Return(code) ==
    /\ exit_code' = code
    /\ main_pc' = "unwind"

\* an exception leaves main(): no enclosing try catches it
Escape ==
    /\ exit_code' = exit_code
    /\ main_pc' = "unhandled"

\* args.generate_config: ExamConfig().to_yaml(...) sits outside every try
\* block; the file is written, or open() raises OSError
MainGenerateConfig ==
    /\ main_pc = "start"
    /\ \E written \in BOOLEAN :
         IF written
         THEN /\ output_dir' = output_dir \cup {"config.yaml"}
              /\ Return(0)
         ELSE /\ output_dir' = output_dir
              /\ Escape
    /\ UNCHANGED <<config, bank, gen_pc, exc, temp_dir, temp_exists, folder, sheets, invoked, log>>
    /\ UNCHANGED gvars

\* the configuration is built, from the file of --config or from the arguments
MainLoadConfig ==
    /\ main_pc = "start"
    /\ config' \in GenConfigs \cup Policies
    /\ main_pc' = "action"
    /\ UNCHANGED <<exit_code, bank, gen_pc, exc, temp_dir, temp_exists, folder, sheets,
                   output_dir, invoked, log>>
    /\ UNCHANGED gvars

\* from_yaml raises FileNotFoundError or yaml.YAMLError: logged, return 1
MainLoadConfigFails ==
    /\ main_pc = "start"
    /\ \E msg \in {"config_not_found", "config_invalid_yaml"} :
         log' = Append(log, LogRecord("error", msg, <<>>, 0))
    /\ Return(1)
    /\ UNCHANGED <<config, bank, gen_pc, exc, temp_dir, temp_exists, folder, sheets,
                   output_dir, invoked>>
    /\ UNCHANGED gvars

\* from_yaml raises something else: PermissionError from open(), or
\* AttributeError from data.items() when the document is not a mapping
MainLoadConfigEscapes ==
    /\ main_pc = "start"
    /\ Escape
    /\ UNCHANGED <<config, bank, gen_pc, exc, temp_dir, temp_exists, folder, sheets,
                   output_dir, invoked, log>>
    /\ UNCHANGED gvars

\* args.azione == 'c': generator = ExamGenerator(config); generator.generate()
MainCreate ==
    /\ main_pc = "action"
    /\ gen_pc = "idle"
    /\ gen_pc' = "setup"
    /\ main_pc' = "create"
    /\ UNCHANGED <<exit_code, config, bank, exc, temp_dir, temp_exists, folder, sheets,
                   output_dir, invoked, log>>
    /\ UNCHANGED gvars

\* generate() returned: return 0
MainCreateReturns ==
    /\ main_pc = "create"
    /\ gen_pc = "returned"
    /\ Return(0)
    /\ UNCHANGED xvars
    /\ UNCHANGED gvars
    /\ UNCHANGED config

\* generate() raised: every except clause logs the error and returns 1
MainCreateRaises ==
    /\ main_pc = "create"
    /\ gen_pc = "raised"
    /\ log' = Append(log, LogRecord("error", "main_caught", <<>>, 0))
    /\ Return(1)
    /\ UNCHANGED <<config, bank, gen_pc, exc, temp_dir, temp_exists, folder, sheets,
                   output_dir, invoked>>
    /\ UNCHANGED gvars

\* args.azione == 'v': grader = ExamGrader(config); grader.grade()
MainGrade ==
    /\ main_pc = "action"
    /\ gpc = "idle"
    /\ gpc' = "start"
    /\ main_pc' = "grade"
    /\ UNCHANGED <<exit_code, config, df, row_idx, q_idx, total_score, scores, report,
                   punteggi, gerr>>
    /\ UNCHANGED xvars

\* grade() returned: generate_response_chart(result.report) returns at once on
\* an empty report, else saves the chart, or raises (savefig); then return 0,
\* or the except clause logs and returns 1
MainChart ==
    /\ main_pc = "grade"
    /\ gpc = "done"
    /\ \E saved \in BOOLEAN :
         IF report = <<>>
         THEN /\ log' = Append(log, LogRecord("warning", "no_chart_data", <<>>, 0))
              /\ output_dir' = output_dir
              /\ Return(0)
         ELSE IF saved
         THEN /\ log' = Append(log, LogRecord("info", "chart", <<>>, 0))
              /\ output_dir' = output_dir \cup {"chart.png"}
              /\ Return(0)
         ELSE /\ log' = Append(log, LogRecord("error", "main_caught", <<>>, 0))
              /\ output_dir' = output_dir
              /\ Return(1)
    /\ UNCHANGED <<config, bank, gen_pc, exc, temp_dir, temp_exists, folder, sheets, invoked>>
    /\ UNCHANGED gvars

\* grade() raised: the except clause logs the error and returns 1
MainGradeRaises ==
    /\ main_pc = "grade"
    /\ gpc = "raised"
    /\ log' = Append(log, LogRecord("error", "main_caught", <<>>, 0))
    /\ Return(1)
    /\ UNCHANGED <<config, bank, gen_pc, exc, temp_dir, temp_exists, folder, sheets,
                   output_dir, invoked>>
    /\ UNCHANGED gvars

\* main() is left and the process ends: the generator is unreachable, and a
\* tempfile.TemporaryDirectory still held in self._temp_dir is finalized,
\* which removes its directory from disk (unless the removal fails)
MainExit ==
    /\ main_pc = "unwind"
    /\ IF temp_dir = "object"
       THEN /\ temp_dir' = "none"
            /\ \E removed \in BOOLEAN : temp_exists' = (temp_exists /\ ~removed)
       ELSE UNCHANGED <<temp_dir, temp_exists>>
    /\ main_pc' = "exited"
    /\ UNCHANGED <<exit_code, config, bank, gen_pc, exc, folder, sheets, output_dir, invoked, log>>
    /\ UNCHANGED gvars

MainNext ==
    \/ MainGenerateConfig
    \/ MainLoadConfig
    \/ MainLoadConfigFails
    \/ MainLoadConfigEscapes
    \/ MainCreate
    \/ MainCreateReturns
    \/ MainCreateRaises
    \/ MainGrade
    \/ MainChart
    \/ MainGradeRaises
    \/ MainExit
    \/ GenerateNext
    \/ GradeNext

\* the question files main() is run on: no sheet, one sheet of one block
MainBanks ==
    { <<>> } \cup { <<[name |-> <<"b">>, rows |-> rows]>> : rows \in {FullBlock, BlankBlock} }

\* the results tables main() is run on
MainTables ==
    { <<>> } \cup { <<r>> : r \in BatchShortRows }
             \cup { <<Row(<<LabelA01, LabelA>>, c, g)>> :
                      c \in {TextCell(<<"A", "-">>), NaN},
                      g \in {TextCell(<<"A", "-">>), Num7} }

\* main() is entered; the files it may read are on disk
InitMain ==
    /\ main_pc = "start"
    /\ exit_code = -1
    /\ config = DefaultConfig
    /\ bank \in MainBanks
    /\ df \in MainTables
    /\ gen_pc = "idle"
    /\ exc = NoException
    /\ temp_dir = "none"
    /\ temp_exists = FALSE
    /\ folder = EmptyFolder
    /\ sheets = <<>>
    /\ output_dir = {}
    /\ invoked = <<>>
    /\ log = <<>>
    /\ gpc = "idle"
    /\ row_idx = 0
    /\ q_idx = 0
    /\ total_score = 0
    /\ scores = <<>>
    /\ report = <<>>
    /\ punteggi = <<>>
    /\ gerr = "none"

SpecMain == InitMain /\ [][MainNext]_vars

\* generate() as a run of its own on the workbooks of MainBanks, every step of
\* which is eventually taken: the code is sequential and each call returns or
\* raises (the two external programs are waited for and assumed to end)
InitPipeline ==
    /\ config \in GenConfigs
    /\ bank \in MainBanks
    /\ gen_pc = "setup"
    /\ exc = NoException
    /\ temp_dir = "none"
    /\ temp_exists = FALSE
    /\ folder = EmptyFolder
    /\ sheets = <<>>
    /\ output_dir = {}
    /\ invoked = <<>>
    /\ log = <<>>
    /\ GraderIdle
    /\ MainIdle

SpecPipeline == InitPipeline /\ [][GenerateNext]_vars /\ WF_vars(GenerateNext)

----------------------------------------------------------------------------
(* grade() as a function of the table, for comparing two runs *)

RECURSIVE CalculateStudentScore(_, _, _, _)
\* _calculate_student_score from zip item i + 1 on
CalculateStudentScore(row, i, total, rep) ==
    IF i >= ZipLen(row)
    THEN [total |-> total, report |-> rep]
    ELSE LET r == ScoreItem(total, rep, CorrectAnswers(row).v[i + 1],
                            GivenAnswers(row).v[i + 1], Questions(row)[i + 1])
         IN  CalculateStudentScore(row, i + 1, r.total, r.report)

RECURSIVE GradeRows(_, _, _, _)
\* the for loop of grade() from row k on
GradeRows(table, k, scs, rep) ==
    IF k > Len(table)
    THEN [err |-> "none", scores |-> scs, report |-> rep]
    ELSE LET row == table[k]
         IN  IF ~ValidateRow(row) \/ ~IsStr(GivenAnswers(row))
             THEN GradeRows(table, k + 1, Append(scs, Blank), rep)
             ELSE IF ~IsStr(CorrectAnswers(row))
             THEN [err |-> "TypeError", scores |-> scs, report |-> rep]
             ELSE LET r == CalculateStudentScore(row, 0, 0, rep)
                  IN  GradeRows(table, k + 1, Append(scs, IntScore(r.total)), r.report)

Grade(table) ==
    IF Len(table) = 0
    THEN [err |-> "ValueError", scores |-> <<>>, report |-> <<>>]
    ELSE GradeRows(table, 1, <<>>, <<>>)

----------------------------------------------------------------------------
(* Vocabulary of the properties *)

\* the counter report[category][field], 0 for a key the report does not hold
Count(rep, category, field) ==
    IF InReport(rep, category)
    THEN (CHOOSE e \in {rep[i] : i \in 1..Len(rep)} : e.cat = category)[field]
    ELSE 0

Keys(rep) == {rep[i].cat : i \in 1..Len(rep)}

Total(rep, category) ==
    Count(rep, category, "corrette") + Count(rep, category, "non_date")
        + Count(rep, category, "errate")

RECURSIVE SumField(_, _)
SumField(rep, field) ==
    IF rep = <<>> THEN 0 ELSE rep[1][field] + SumField(Tail(rep), field)

\* rows 1..k of df that grade() scored
Scored(k) == k \in 1..Len(scores) /\ ~scores[k].blank

\* the smallest of the lengths of a row's correct answers, given answers and
\* label list, the text of a non-text cell counting for nothing
Shortest(row) ==
    LET lens == { IF row[Len(row) - 2].t = "str" THEN Len(row[Len(row) - 2].v) ELSE 0,
                  IF row[Len(row) - 1].t = "str" THEN Len(row[Len(row) - 1].v) ELSE 0,
                  Len(row) - 6 }
    IN  CHOOSE n \in lens : \A m \in lens : n <= m

\* positions of a row by the class the scoring rule gives them, over 1..n
MissingAt(row, n) == {i \in 1..n : GivenAnswers(row).v[i] = "-"}

CorrectAt(row, n) ==
    {i \in 1..n : GivenAnswers(row).v[i] # "-"
                    /\ GivenAnswers(row).v[i] = CorrectAnswers(row).v[i]}

IncorrectAt(row, n) ==
    {i \in 1..n : GivenAnswers(row).v[i] # "-"
                    /\ GivenAnswers(row).v[i] # CorrectAnswers(row).v[i]}

\* the category key the report files a label under
LabelKey(label) ==
    LET s == PyStr(label)
    IN  IF Len(s) < 2 THEN s ELSE [i \in 1..(Len(s) - 2) |-> s[i]]

----------------------------------------------------------------------------
(* C1 *)

\* C1 (as stated): in a table of one row, once the row is scored, its score is
\* points_correct*nCorrect + points_missing*nMissing + points_incorrect*nIncorrect
\* for the numbers of positions the run classified correct, missing and
\* incorrect, and these three numbers add up to the length of the given answers.
Cex_C1 ==
    (gpc = "done" /\ Len(df) = 1 /\ ~punteggi[1].blank) =>
        LET nCorrect   == SumField(report, "corrette")
            nMissing   == SumField(report, "non_date")
            nIncorrect == SumField(report, "errate")
        IN  /\ punteggi[1].v = config.points_correct * nCorrect
                                + config.points_missing * nMissing
                                + config.points_incorrect * nIncorrect
            /\ nCorrect + nMissing + nIncorrect = Len(GivenAnswers(df[1]).v)

\* C1 (amended): every scored row's score is
\* points_correct*nCorrect + points_missing*nMissing + points_incorrect*nIncorrect
\* where the counts are taken over the first n positions, n the smallest of the
\* lengths of the correct answers, the given answers and the label list; the
\* counts add up to n, which is the length of the given answers when the three
\* lengths are equal.
Thm_C1 ==
    \A k \in 1..Len(scores) :
        Scored(k) =>
            LET row == df[k]
                n   == Shortest(row)
                nCorrect   == Cardinality(CorrectAt(row, n))
                nMissing   == Cardinality(MissingAt(row, n))
                nIncorrect == Cardinality(IncorrectAt(row, n))
            IN  /\ scores[k].v = config.points_correct * nCorrect
                                  + config.points_missing * nMissing
                                  + config.points_incorrect * nIncorrect
                /\ nCorrect + nMissing + nIncorrect = n
                /\ (Len(CorrectAnswers(row).v) = Len(GivenAnswers(row).v)
                      /\ Len(Questions(row)) = Len(GivenAnswers(row).v))
                     => n = Len(GivenAnswers(row).v)

\* a row scored under the negative policy whose given answers are longer than
\* the positions scored, with a missing and a non-missing position among them
Wit_C1 ==
    /\ gpc = "done"
    /\ config.points_incorrect < 0
    /\ Scored(1)
    /\ Shortest(df[1]) < Len(GivenAnswers(df[1]).v)
    /\ Shortest(df[1]) >= 1
    /\ scores[1].v # 0

----------------------------------------------------------------------------
(* C2 *)

\* the loop of _calculate_student_score is at a position whose given answer is '-'
AtMissingPosition ==
    /\ gpc = "zip"
    /\ q_idx < Shortest(CurrentRow)
    /\ GivenAnswers(CurrentRow).v[q_idx + 1] = "-"

\* C2: scoring a position whose given answer is '-' adds exactly points_missing
\* to the row's running score and raises exactly one counter by one, the
\* 'non date' counter of the category of that position's label, whatever the
\* correct answer at the position; the running score is the score appended for
\* the row when the loop ends.
Thm_C2 ==
    [][ /\ AtMissingPosition =>
            LET category == LabelKey(Questions(CurrentRow)[q_idx + 1])
            IN  /\ total_score' = total_score + config.points_missing
                /\ Keys(report') = Keys(report) \cup {category}
                /\ \A c \in Keys(report') :
                     /\ Count(report', c, "non_date")
                          = Count(report, c, "non_date") + (IF c = category THEN 1 ELSE 0)
                     /\ Count(report', c, "corrette") = Count(report, c, "corrette")
                     /\ Count(report', c, "errate") = Count(report, c, "errate")
        /\ (gpc = "zip" /\ gpc' = "rows") =>
            scores' = Append(scores, IntScore(total_score))
      ]_vars

\* a position with given answer '-' and correct answer '-' has just been scored
Wit_C2 ==
    /\ gpc = "zip"
    /\ q_idx >= 1
    /\ GivenAnswers(CurrentRow).v[q_idx] = "-"
    /\ CorrectAnswers(CurrentRow).v[q_idx] = "-"
    /\ SumField(report, "non_date") >= 1

----------------------------------------------------------------------------
(* C3 *)

\* the label entries <<k, i>> of the scored rows among rows 1..Len(scores),
\* position i ranging over the first Width(row) labels, that map to the key
EntriesOf(key, Width(_)) ==
    { e \in (1..Len(scores)) \X (1..Len(Questions(df[1]))) :
        /\ Scored(e[1])
        /\ e[2] <= Width(df[e[1]])
        /\ LabelKey(Questions(df[e[1]])[e[2]]) = key }

AllLabels(row) == Len(Questions(row))

\* C3 (as stated): after grade(), for every key K of the report,
\* corrette + non date + errate of K is the number of label entries of the
\* scored rows that map to K.
Cex_C3 ==
    gpc = "done" =>
        \A key \in Keys(report) : Total(report, key) = Cardinality(EntriesOf(key, AllLabels))

\* C3 (amended): after grade(), for every key K of the report,
\* corrette + non date + errate of K is the number of label entries that map to
\* K among the first n labels of each scored row, n the smallest of the lengths
\* of the row's correct answers, given answers and label list; a label maps to
\* itself without its last 2 characters when it has at least 2, to itself
\* otherwise; the labels of blank rows count for no key, and every key such an
\* entry maps to is in the report.
Thm_C3 ==
    gpc = "done" =>
        /\ \A key \in Keys(report) : Total(report, key) = Cardinality(EntriesOf(key, Shortest))
        /\ \A k \in 1..Len(df) : \A i \in 1..Len(Questions(df[k])) :
             (Scored(k) /\ i <= Shortest(df[k])) => LabelKey(Questions(df[k])[i]) \in Keys(report)

\* a finished run over two rows, the first scored at both its labels, the
\* second blank or cut short by zip, with the empty key (a 2-character label)
\* counted at least once
Wit_C3 ==
    /\ gpc = "done"
    /\ Len(df) = 2
    /\ Scored(1)
    /\ Shortest(df[1]) = 2
    /\ Shortest(df[2]) < 2 \/ ~Scored(2)
    /\ <<>> \in Keys(report)
    /\ Total(report, <<>>) >= 1

----------------------------------------------------------------------------
(* C4 *)

\* grade() is about to read a row it will leave unscored
AtBlankRow ==
    /\ gpc = "rows"
    /\ row_idx < Len(df)
    /\ \/ Len(CurrentRow) < 6
       \/ ~IsStr(CurrentRow[Len(CurrentRow) - 1])

\* C4: a row with fewer than 6 columns or a non-text second-to-last column gets
\* a blank score, changes no counter and raises nothing, the loop goes on with
\* the next row, and a finished run has one score entry per row, in row order:
\* blank for exactly those rows.
Thm_C4 ==
    /\ [][ AtBlankRow =>
             /\ scores' = Append(scores, Blank)
             /\ report' = report
             /\ gerr' = "none"
             /\ gpc' = "rows"
             /\ row_idx' = row_idx + 1 ]_vars
    /\ [](gpc = "done" =>
             /\ Len(punteggi) = Len(df)
             /\ \A k \in 1..Len(df) :
                  punteggi[k].blank <=>
                      (Len(df[k]) < 6 \/ ~IsStr(df[k][Len(df[k]) - 1])))

\* a finished run over a table whose first row is blank for a numeric
\* given-answers cell and whose second row is scored
Wit_C4 ==
    /\ gpc = "done"
    /\ Len(df) = 2
    /\ Len(df[1]) >= 6
    /\ punteggi[1].blank
    /\ ~punteggi[2].blank
    /\ report # <<>>

----------------------------------------------------------------------------
(* C5 *)

\* C5: no exception leaves grade() on a non-empty table.
Cex_C5 == Len(df) > 0 => gerr = "none"

----------------------------------------------------------------------------
(* C6 *)

Permute(table, p) == [k \in 1..Len(table) |-> table[p[k]]]

\* C6: a finished run and the run over any permutation of the table's rows give
\* every row the same score and every category the same three counts (a run
\* that raises does so under every permutation), and no step of grade()
\* changes the table.
Thm_C6 ==
    /\ [][df' = df]_vars
    /\ [](gpc \in {"done", "raised"} =>
            \A p \in Permutations(1..Len(df)) :
                LET other == Grade(Permute(df, p))
                IN  IF gpc = "raised"
                    THEN other.err = gerr
                    ELSE /\ other.err = "none"
                         /\ \A k \in 1..Len(df) : other.scores[k] = punteggi[p[k]]
                         /\ Keys(other.report) = Keys(report)
                         /\ \A c \in Keys(report) : \A f \in {"corrette", "non_date", "errate"} :
                              Count(other.report, c, f) = Count(report, c, f))

\* a finished run over two different scored rows that feed the same category
Wit_C6 ==
    /\ gpc = "done"
    /\ Len(df) = 2
    /\ df[1] # df[2]
    /\ Scored(1) /\ Scored(2)
    /\ punteggi[1] # punteggi[2]
    /\ \E c \in Keys(report) : Total(report, c) >= 3

----------------------------------------------------------------------------
(* Vocabulary of the generator properties *)

\* the parse stage has just returned the category list
Parsed == gen_pc = "description"

\* the text of a cell without the white space around it
Trimmed(cell) ==
    LET s    == PyStr(cell)
        inks == {i \in 1..Len(s) : s[i] \notin {" ", "\t", "\n"}}
    IN  IF inks = {} THEN <<>>
        ELSE LET first == CHOOSE i \in inks : \A j \in inks : i <= j
                 last  == CHOOSE i \in inks : \A j \in inks : j <= i
             IN  [i \in 1..(last - first + 1) |-> s[first + i - 1]]

\* the number of whole blocks of a sheet
BlockCount(k) == Len(bank[k].rows) \div 5

\* the cell of row r (counted from 0) of sheet k
CellAt(k, r) == bank[k].rows[r + 1][1]

Present(k, r) == CellAt(k, r).t # "nan"

RecordName(k, i) == FileName(bank[k].name, i)

HasRecord(k, i) == RecordName(k, i) \in DOMAIN folder.questions

RecordOf(k, i) == folder.questions[RecordName(k, i)]

\* the block indices of sheet k under which a record exists
Emitted(k) == {i \in 0..Len(bank[k].rows) : HasRecord(k, i)}

RECURSIVE Lines(_, _)
\* the lines of a text, each ended by a line break; cur is the line being read
Lines(text, cur) ==
    IF text = <<>> THEN (IF cur = <<>> THEN <<>> ELSE <<cur>>)
    ELSE IF Head(text) = "\n" THEN <<cur>> \o Lines(Tail(text), <<>>)
    ELSE Lines(Tail(text), Append(cur, Head(text)))

IsDelimiterLine(line) == line = <<".">>

\* the lines of a record that are not delimiter lines, in order
FieldsOf(content) == SelectSeq(Lines(content, <<>>), LAMBDA l : ~IsDelimiterLine(l))

\* the trimmed texts of the present cells among rows 5i+1 .. 5i+4 of sheet k, in row order
ResponsesOf(k, i) ==
    LET present == SelectSeq(<<1, 2, 3, 4>>, LAMBDA d : Present(k, 5 * i + d))
    IN  [n \in 1..Len(present) |-> Trimmed(CellAt(k, 5 * i + present[n]))]

\* the block indices the parser handled for a sheet, in the order of its log
Handled(name) ==
    LET recs == SelectSeq(log, LAMBDA r : r.sheet = name /\ r.msg \in {"wrote", "empty_question"})
    IN  [n \in 1..Len(recs) |-> recs[n].n]

----------------------------------------------------------------------------
(* C7 *)

\* C7 (as stated): after the parse stage, the number of block records of every
\* sheet is floor(rowCount / 5).
Cex_C7 ==
    Parsed => \A k \in 1..Len(bank) : Cardinality(Emitted(k)) = BlockCount(k)

\* C7 (amended): for every sheet the parser handles exactly floor(rowCount/5)
\* blocks, indices 0 .. floor(rowCount/5) - 1 in order, and emits a record for
\* exactly those of them whose prompt cell (row 5i) is present, so every
\* emitted index is below floor(rowCount/5) and the number emitted is
\* floor(rowCount/5) less the blocks without a prompt; the record of block i
\* holds row 5i as prompt and the present ones of rows 5i+1 .. 5i+4 as
\* responses in row order, and the rowCount mod 5 rows after the last whole
\* block are in no record.
Thm_C7 ==
    Parsed =>
        \A k \in 1..Len(bank) :
            LET n == BlockCount(k)
            IN  /\ Handled(bank[k].name) = [i \in 1..n |-> i - 1]
                /\ Emitted(k) = {i \in 0..(n - 1) : Present(k, 5 * i)}
                /\ Cardinality(Emitted(k))
                     = n - Cardinality({i \in 0..(n - 1) : ~Present(k, 5 * i)})
                /\ \A i \in Emitted(k) :
                     LET fields == FieldsOf(RecordOf(k, i))
                         resp   == ResponsesOf(k, i)
                     IN  /\ fields[1] = Trimmed(CellAt(k, 5 * i))
                         /\ resp # <<>> => fields = <<fields[1]>> \o resp
                         /\ \A r \in (5 * n)..(Len(bank[k].rows) - 1) :
                              \A f \in 1..Len(fields) : fields[f] # Trimmed(CellAt(k, r))

\* a parsed sheet of 7 rows with its one record, and a parsed sheet of two
\* whole blocks of which one has no prompt
Wit_C7 ==
    /\ Parsed
    /\ \E k \in 1..Len(bank) :
         /\ Len(bank[k].rows) % 5 = 2
         /\ BlockCount(k) >= 1
         /\ \E i \in Emitted(k) : \E j \in 0..(BlockCount(k) - 1) : j \notin Emitted(k)

----------------------------------------------------------------------------
(* C8 *)

\* C8: after the parse stage, a whole block without a prompt cell has no
\* record, every whole block with a prompt cell has the record
\* <category>-<its own index> whatever the blocks before it and however few
\* of its responses are present, and the only failures of the parse stage are
\* those of the input file (missing, not a file, unreadable, no sheets).
Thm_C8 ==
    /\ [](Parsed =>
            \A k \in 1..Len(bank) : \A j \in 0..(BlockCount(k) - 1) :
                /\ ~Present(k, 5 * j) => ~HasRecord(k, j)
                /\ Present(k, 5 * j) =>
                     /\ HasRecord(k, j)
                     /\ FieldsOf(RecordOf(k, j))[1] = Trimmed(CellAt(k, 5 * j)))
    /\ [][(gen_pc = "parse" /\ gen_pc' = "finally") =>
             /\ exc'.msg \in {"input_not_found", "input_not_a_file", "input_unreadable", "no_sheets"}
             /\ exc'.msg = "no_sheets" => bank = <<>>]_vars

\* a parsed sheet whose block 0 has no prompt and whose block 1, short of
\* responses, is on record as <category>-1
Wit_C8 ==
    /\ Parsed
    /\ \E k \in 1..Len(bank) :
         /\ BlockCount(k) >= 2
         /\ ~Present(k, 0)
         /\ ~HasRecord(k, 0)
         /\ HasRecord(k, 1)
         /\ Len(ResponsesOf(k, 1)) < 4

----------------------------------------------------------------------------
(* C9 *)

\* a whole block with its prompt and its 4 responses present
Complete(k, i) ==
    /\ i \in 0..(BlockCount(k) - 1)
    /\ \A d \in 0..4 : Present(k, 5 * i + d)

\* C9: the record of a block with a present prompt and 4 present responses is
\* named <category>-<index> and is, line by line, the prompt, '.', response 1,
\* '.', response 2, '.', response 3, '.', response 4, '.': 5 delimiter lines,
\* the last line being the delimiter after the fourth response.
Thm_C9 ==
    Parsed =>
        \A k \in 1..Len(bank) : \A i \in 0..(BlockCount(k) - 1) :
            Complete(k, i) =>
                /\ HasRecord(k, i)
                /\ LET content == RecordOf(k, i)
                       lines   == Lines(content, <<>>)
                   IN  /\ lines = << Trimmed(CellAt(k, 5 * i)), <<".">>,
                                     Trimmed(CellAt(k, 5 * i + 1)), <<".">>,
                                     Trimmed(CellAt(k, 5 * i + 2)), <<".">>,
                                     Trimmed(CellAt(k, 5 * i + 3)), <<".">>,
                                     Trimmed(CellAt(k, 5 * i + 4)), <<".">> >>
                       /\ Cardinality({n \in 1..Len(lines) : IsDelimiterLine(lines[n])}) = 5
                       /\ content[Len(content)] = "\n"
                       /\ IsDelimiterLine(lines[Len(lines)])

\* a complete block at index 1 of its sheet is on record
Wit_C9 ==
    /\ Parsed
    /\ \E k \in 1..Len(bank) :
         /\ Complete(k, 1)
         /\ HasRecord(k, 1)
         /\ Len(RecordOf(k, 1)) > 20

----------------------------------------------------------------------------
(* C10 *)

\* the lines of the description that hold a directive
Directives == SelectSeq(folder.description, LAMBDA l : l.kw # "")

DescriptionWritten == folder.description # <<>>

\* C10: the description holds, in this order and nothing else: directory ".",
\* seed <seed>, serial <serial_start>, one 'use <usage_per_category> from
\* "<sheet>-*"' per sheet of the workbook in workbook order, create <num_tests>.
Thm_C10 ==
    DescriptionWritten =>
        LET d == Directives
            n == Len(bank)
        IN  /\ sheets = [k \in 1..n |-> bank[k].name]
            /\ Len(d) = n + 4
            /\ d[1] = [kw |-> "directory", num |-> 0, arg |-> <<".">>]
            /\ d[2] = [kw |-> "seed", num |-> config.seed, arg |-> <<>>]
            /\ d[3] = [kw |-> "serial", num |-> config.serial_start, arg |-> <<>>]
            /\ \A k \in 1..n :
                 d[3 + k] = [kw |-> "use", num |-> config.usage_per_category,
                             arg |-> bank[k].name \o <<"-", "*">>]
            /\ d[n + 4] = [kw |-> "create", num |-> config.num_tests, arg |-> <<>>]
            /\ \A l \in 1..Len(folder.description) :
                 folder.description[l].kw = "" => l = 1

\* a description for two sheets that are not in sorted order, one of them
\* without any record, under the non-default configuration
Wit_C10 ==
    /\ DescriptionWritten
    /\ Len(bank) = 2
    /\ bank[1].name = <<"b">>
    /\ bank[2].name = <<"a">>
    /\ config.seed # 42
    /\ \E k \in 1..2 : Emitted(k) = {}

----------------------------------------------------------------------------
(* Vocabulary of the pipeline properties *)

\* generate() has ended: it returned, or an exception left it
Ended == gen_pc \in {"returned", "raised"}

Logged(msg) == \E i \in 1..Len(log) : log[i].msg = msg

----------------------------------------------------------------------------
(* C11 *)

\* C11 (as stated): with cleanup_temp set, when generate() has returned or
\* raised, on whatever path, the temporary directory is no longer on disk.
Cex_C11 == (Ended /\ config.cleanup_temp) => ~temp_exists

\* C11 (amended): with cleanup_temp set, on every path to the finally clause
\* (success, a failure of the parse stage, of much, of pdflatex or of the
\* copy of the outputs) the directory's removal has been attempted by the time
\* generate() returns or raises and the generator holds it no longer; the
\* directory is gone from disk unless that removal itself failed with an
\* OSError, which is logged as a warning.
Thm_C11 ==
    (Ended /\ config.cleanup_temp) =>
        /\ temp_dir = "none"
        /\ temp_exists => Logged("cleanup_failed")
        /\ \A i \in 1..Len(log) : log[i].msg = "cleanup_failed" => i = Len(log)

\* an exception left generate() from the copy of the outputs and the directory is gone
Wit_C11 ==
    /\ gen_pc = "raised"
    /\ exc.msg = "copy_failed"
    /\ config.cleanup_temp
    /\ temp_dir = "none"
    /\ ~temp_exists

----------------------------------------------------------------------------
(* C12 *)

\* generate() has created its temporary directory
Acquired == gen_pc \notin {"idle", "setup"}

\* C12 (as stated): with cleanup_temp unset, the temporary directory that
\* generate() created stays on disk on every exit path of generate() and
\* through every later step of the process, the finalization of the
\* TemporaryDirectory object included, so it is still there when the command
\* has ended.
Cex_C12 == (Acquired /\ ~config.cleanup_temp) => temp_exists

----------------------------------------------------------------------------
(* C13 *)

\* the errors of the input checks of the parse stage
ValidationErrors ==
    { [type |-> "ValueError", msg |-> "no_sheets"],
      [type |-> "FileNotFoundError", msg |-> "input_not_found"],
      [type |-> "ValueError", msg |-> "input_not_a_file"],
      [type |-> "PermissionError", msg |-> "input_unreadable"] }

\* C13: on a workbook with no sheet generate() never gets past the parse
\* stage: reading the workbook raises the ValueError about the missing sheets
\* (a parse stage that does not get to read it raises one of the input file
\* errors), the run ends with that exception, neither much nor pdflatex is
\* ever run, and nothing is written to the output directory.
Thm_C13 ==
    /\ [](bank = <<>> =>
            /\ gen_pc \in {"setup", "template", "parse", "finally", "raised"}
            /\ invoked = <<>>
            /\ output_dir = {}
            /\ folder.questions = <<>>
            /\ gen_pc \in {"finally", "raised"} => exc \in ValidationErrors)
    /\ [][(bank = <<>> /\ gen_pc = "parse" /\ exc'.msg \notin {"input_not_found", "input_not_a_file", "input_unreadable"})
            => /\ gen_pc' = "finally"
               /\ exc' = [type |-> "ValueError", msg |-> "no_sheets"]]_vars

\* generate() raised the ValueError about a workbook with no sheet
Wit_C13 ==
    /\ bank = <<>>
    /\ gen_pc = "raised"
    /\ exc = [type |-> "ValueError", msg |-> "no_sheets"]
    /\ invoked = <<>>
    /\ output_dir = {}

----------------------------------------------------------------------------
(* C14 *)

MuchRan == \E i \in 1..Len(invoked) : invoked[i] = "much"

\* C14 (as stated): a run in which much was invoked and exited non-zero, or
\* exited zero without leaving its generated content or its serial number
\* listing, ends with an exception and never logs the success message.
Cex_C14 ==
    (Ended /\ MuchRan /\ (~folder.mc_output \/ ~folder.mc_serials)) =>
        /\ gen_pc = "raised"
        /\ ~Logged("completed")

----------------------------------------------------------------------------
(* C15 *)

\* the action main() was asked for has run to its end
Completed ==
    \/ "config.yaml" \in output_dir
    \/ gen_pc = "returned"
    \/ gpc = "done" /\ (report = <<>> \/ "chart.png" \in output_dir)

\* C15 (as stated): no exception leaves main(), whatever fails and wherever
\* (loading the configuration, writing the configuration template, generate(),
\* grade(), the chart), and main() returns 0 exactly when the requested action
\* ran to its end, a non-zero code otherwise.
Cex_C15 ==
    /\ main_pc # "unhandled"
    /\ main_pc \in {"unwind", "exited"} => (exit_code = 0 <=> Completed)
    /\ main_pc \in {"unwind", "exited"} => exit_code \in {0, 1}

----------------------------------------------------------------------------
(* C16 *)

\* the steps of the try block of generate(), in program order
Stages == <<"setup", "template", "parse", "description", "images", "much", "latex", "copy">>

IsStage(pc) == \E i \in 1..Len(Stages) : Stages[i] = pc

Rank(pc) == CHOOSE i \in 1..Len(Stages) : Stages[i] = pc

\* what the stages before the one at hand have left behind
PredecessorsCompleted ==
    IsStage(gen_pc) =>
        /\ exc = NoException
        /\ Rank(gen_pc) > Rank("setup") => temp_dir = "object" /\ temp_exists
        /\ Rank(gen_pc) > Rank("template") => folder.tex
        /\ Rank(gen_pc) > Rank("parse") => sheets = SheetNames(bank) /\ Logged("parsed")
        /\ Rank(gen_pc) > Rank("description") => folder.description # <<>>
        /\ Rank(gen_pc) > Rank("much") => invoked[1] = "much"
        /\ Rank(gen_pc) > Rank("latex") => invoked = <<"much", "pdflatex">> /\ folder.pdf

\* one step of generate(): a stage hands over to the next one in program
\* order, or raises into the finally clause, which ends the run
StageStep ==
    /\ gen_pc' # gen_pc
    /\ \/ /\ IsStage(gen_pc)
          /\ gen_pc # "copy"
          /\ gen_pc' = Stages[Rank(gen_pc) + 1]
          /\ exc' = NoException
       \/ /\ IsStage(gen_pc)
          /\ gen_pc # "copy"
          /\ gen_pc' = "finally"
          /\ exc' # NoException
       \/ /\ gen_pc = "copy"
          /\ gen_pc' = "finally"
       \/ /\ gen_pc = "finally"
          /\ exc' = exc
          /\ gen_pc' = IF exc = NoException THEN "returned" ELSE "raised"

\* C16: every step of a generation run either moves from one stage to the
\* next one in the order template, parse, description, images, much, pdflatex,
\* copy of the outputs, or leaves the stages for good (an exception, or the end
\* of the last stage); no step re-enters or repeats a stage, so each external
\* program is run at most once; a stage is entered only with all the earlier
\* ones completed; and every run ends, in exactly one of two final states it
\* never leaves: returned (all stages completed, no exception) or raised (an
\* exception).
Thm_C16 ==
    /\ [][StageStep]_vars
    /\ [](PredecessorsCompleted)
    /\ [](\E n \in 0..2 : invoked = SubSeq(<<"much", "pdflatex">>, 1, n))
    /\ [](gen_pc = "returned" => exc = NoException /\ Logged("completed") /\ Len(invoked) = 2)
    /\ [](gen_pc = "raised" => exc # NoException /\ ~Logged("completed"))
    /\ <>[](Ended)

\* a run that went through every stage and returned
Wit_C16 ==
    /\ gen_pc = "returned"
    /\ invoked = <<"much", "pdflatex">>
    /\ folder.tex
    /\ folder.description # <<>>
    /\ folder.pdf
    /\ "exam.pdf" \in output_dir

----------------------------------------------------------------------------
(* C17 *)

\* a stage of the run met one of the failures the logger records without raising
StageFailed ==
    \/ Logged("copy_image_failed")
    \/ Logged("serials_unparsed")
    \/ gen_pc \in {"finally", "returned", "raised"} /\ Len(invoked) = 2 /\ ~folder.mc_serials

\* C17 (as stated): once a stage has failed (an image that could not be
\* copied, a serial number listing that is missing or does not parse, a
\* missing exam.pdf, or any exception), no later stage runs and the run ends
\* raised, without the success message.
Cex_C17 ==
    /\ Logged("copy_image_failed") => gen_pc \in {"much", "finally", "raised"} /\ invoked = <<>>
    /\ StageFailed => gen_pc # "returned" /\ ~Logged("completed")
    /\ exc # NoException => gen_pc \in {"finally", "raised"}

----------------------------------------------------------------------------
(* C18 *)

\* a text with no white space at either end
IsTrimmed(s) == s = <<>> \/ (s[1] \notin {" ", "\t", "\n"} /\ s[Len(s)] \notin {" ", "\t", "\n"})

\* C18 (as stated): in every record the parser has written, the prompt and
\* each response (the fields between the delimiter lines) are trimmed and
\* not empty, whatever the cells of the workbook hold.
Cex_C18 ==
    Parsed =>
        \A name \in DOMAIN folder.questions :
            LET fields == FieldsOf(folder.questions[name])
            IN  /\ Len(fields) >= 1
                /\ \A n \in 1..Len(fields) : fields[n] # <<>> /\ IsTrimmed(fields[n])

----------------------------------------------------------------------------
(* C19 *)

\* the lines of the description that are the usage directive of sheet k
UsagesOf(k) ==
    {l \in 1..Len(folder.description) :
        folder.description[l] = [kw |-> "use", num |-> config.usage_per_category,
                                 arg |-> bank[k].name \o <<"-", "*">>]}

\* C19: the list the parse stage returns is the list of all the sheets of
\* the workbook, so a sheet for which no record was written (no rows, fewer
\* than 5 rows, or no prompt in any block) has its usage directive in the
\* description like any other; a workbook with at least one sheet never makes
\* the parse stage raise once it is read, and the run goes on from there
\* through the description and the images to the call of much.
Thm_C19 ==
    /\ [](Parsed => sheets = [k \in 1..Len(bank) |-> bank[k].name])
    /\ [](DescriptionWritten =>
            \A k \in 1..Len(bank) : Emitted(k) = {} => Cardinality(UsagesOf(k)) = 1)
    /\ [][(gen_pc = "parse" /\ bank # <<>>
            /\ exc'.msg \notin {"input_not_found", "input_not_a_file", "input_unreadable"})
            => (gen_pc' = "description" /\ exc' = NoException)]_vars
    /\ [][(gen_pc = "description" => gen_pc' = "images")
            /\ (gen_pc = "images" => gen_pc' = "much" /\ invoked' = <<>>)
            /\ (gen_pc \in {"description", "images"} => exc' = NoException)]_vars
    /\ [](MuchRan => DescriptionWritten /\ sheets = [k \in 1..Len(bank) |-> bank[k].name])

\* much has been run on a workbook that has a sheet of one block without a
\* prompt and no record under that sheet's name
Wit_C19 ==
    /\ MuchRan
    /\ \E k \in 1..Len(bank) :
         /\ bank[k].rows = NoPromptBlock
         /\ Emitted(k) = {}
         /\ Cardinality(UsagesOf(k)) = 1

====
